---- MODULE Spec2Model ----
(***************************************************************************)
(* Model of the process lifecycle controller of src/index.js, the tasks    *)
(* 'start' and 'restart' registered by runner(), together with the child   *)
(* process events ('exit', 'close', stdout 'close') and the fs.access      *)
(* callback they register.                                                 *)
(*                                                                         *)
(* Every child process the controller spawns is an entry of procs: a       *)
(* worker (spawn('node', ...), line 140) or a signalling helper            *)
(* (spawn('kill', [pid]), line 156).  The closure variable `process` of    *)
(* runner() is the index of the entry it refers to, NoProcess for null.    *)
(* A worker left running by an earlier run of the controller, whose        *)
(* identifier is still in the PID file, is the variable prior.             *)
(***************************************************************************)
EXTENDS Integers, Sequences, FiniteSets, TLC

VARIABLES
    process,   \* `var process` of runner() (line 115): index into procs
    procs,     \* the ChildProcess objects spawned so far (lines 140, 156)
    pidFile,   \* content of the PID file, Missing when it does not exist
    prior,     \* the worker of an earlier run, named by the PID file
    restarts,  \* one record per run of the task 'restart'
    errors,    \* lines written by console.error (line 153)
    thrown,    \* how many times fs.writeFileSync (line 141) has thrown
    normal,    \* history: the tasks were run in the normal order so far
    debug,     \* parameter `debug` of runner() (line 114), as !!debug
    options,   \* the global `options` of the task 'start' (line 134)
    registered,\* the names of the tasks registered on the gulp object
    build,     \* the build marker file, its watcher and the build-done chain
    assetsPath,\* parameter `assetsPath` of assets() (line 63), a JS value
    result,    \* what adaptPath(assetsPath) returned or threw (line 67)
    adaptPc    \* "idle", "call" before and "done" after 'watch-assets'

vars ==
    <<process, procs, pidFile, prior, restarts, errors, thrown, normal,
      debug, options, registered, build, assetsPath, result, adaptPc>>

\* the state of the task 'watch-assets'
adaptVars == <<assetsPath, result, adaptPc>>

\* the part of the state that 'start', 'restart' and the child events leave
\* alone
buildVars == <<registered, build>>

\* the part of the state that the build-done chain leaves alone
runnerVars ==
    <<process, procs, pidFile, prior, restarts, errors, thrown, normal,
      debug, options>>

\* Bounds of the model: how many times the user runs each task, how many
\* times fs.writeFileSync throws, how many children are spawned in all.
MaxUserStarts == 1
MaxRestarts == 2
MaxWriteFailures == 1
MaxProcs == 3
MaxBuilds == 2
MaxLen == 2
MaxPaths == 2

\* the outcomes fs.writeFileSync may still have
WriteOutcomes == IF thrown < MaxWriteFailures THEN BOOLEAN ELSE {TRUE}

Failures(oks) == Cardinality({i \in DOMAIN oks : ~oks[i]})

\* `var process = null` (line 115)
NoProcess == 0

\* the PID file does not exist
Missing == <<-1>>

\* process.pid of the n-th child spawned by the controller; Pid(0) is the
\* identifier of the worker of an earlier run of the controller
Pid(n) == 100 + n

PriorPid == Pid(0)

\* fs.writeFileSync(pidFile, process.pid): the number is written as its
\* decimal text, a sequence of digits
RECURSIVE PidToText(_)
PidToText(n) == IF n < 10 THEN <<n>> ELSE Append(PidToText(n \div 10), n % 10)

\* spawn('kill', [fs.readFileSync(pidFile)]): kill reads the text back as a
\* number
RECURSIVE TextToPid(_)
TextToPid(t) ==
    IF Len(t) = 0 THEN 0
    ELSE 10 * TextToPid(SubSeq(t, 1, Len(t) - 1)) + t[Len(t)]

\* The controller's state as one record, so that a handler that calls
\* gulp.start('start') is the composition of the two task bodies.
St ==
    [process |-> process, procs |-> procs, pidFile |-> pidFile,
     prior |-> prior, restarts |-> restarts, errors |-> errors,
     thrown |-> thrown, debug |-> debug, options |-> options]

Install(s) ==
    /\ process' = s.process
    /\ procs' = s.procs
    /\ pidFile' = s.pidFile
    /\ prior' = s.prior
    /\ restarts' = s.restarts
    /\ errors' = s.errors
    /\ thrown' = s.thrown
    /\ debug' = s.debug
    /\ options' = s.options
    /\ UNCHANGED <<buildVars, adaptVars>>

\* the ChildProcess returned by spawn('node', options, {stdio: 'inherit'});
\* cause is the restart whose handler called gulp.start('start'), 0 for a
\* 'start' run by the user
Worker(cause, written, args) ==
    [kind |-> "worker", state |-> "running", exitCode |-> "null",
     observer |-> written, sigterm |-> FALSE, closeL |-> <<>>,
     stdoutL |-> 0, stdoutClosed |-> TRUE, target |-> 0, cause |-> cause,
     pidWritten |-> written, args |-> args]

\* the ChildProcess returned by spawn('kill', [pid]): its stdio are pipes
Helper(pid, r) ==
    [kind |-> "kill", state |-> "running", exitCode |-> "null",
     observer |-> FALSE, sigterm |-> FALSE, closeL |-> <<>>,
     stdoutL |-> r, stdoutClosed |-> FALSE, target |-> pid, cause |-> r,
     pidWritten |-> FALSE, args |-> <<PidToText(pid)>>]

\* parameter `command` of runner() (line 114)
Command == "server.js"

\* the flag pushed when debug is enabled (line 136)
Inspect == "--inspect=[::]:9229"

\* an argument list that keeps the entries of the previous 'start'
StartOptionsKept(prev, dbg) ==
    Append(IF dbg THEN Append(prev, Inspect) ELSE prev, Command)

\* the argument list built by 'start' (lines 134-138): `options = []`, then
\* the pushes; prev is the value the global had before
StartOptions(prev, dbg) ==
    Append(IF dbg THEN Append(<<>>, Inspect) ELSE <<>>, Command)

\* gulp task 'start' (lines 133-147).  writeOk is whether
\* fs.writeFileSync(pidFile, ...) succeeds; when it throws, the worker is
\* already spawned and assigned, and the exit observer is never registered.
StartTask(s, cause, writeOk) ==
    LET w == Len(s.procs) + 1
        opts == StartOptions(s.options, s.debug)
        counted == IF cause = 0 THEN s.restarts
                   ELSE [s.restarts EXCEPT ![cause].starts = @ + 1]
    IN  [s EXCEPT !.options = opts,
                  !.procs = Append(@, Worker(cause, writeOk, opts)),
                  !.process = w,
                  !.pidFile = IF writeOk THEN PidToText(Pid(w)) ELSE @,
                  !.thrown = IF writeOk THEN @ ELSE @ + 1,
                  !.restarts = counted]

\* a record of one run of the 'restart' task: the branch it took, the
\* child the handle referred to and whether that child was running, the
\* helper it spawned, and how many times it has called gulp.start('start')
RestartRec(branch, target, live) ==
    [branch |-> branch, target |-> target, live |-> live, helper |-> 0,
     starts |-> 0]

\* 'restart' that does not wait for 'close' of a running child: it sends
\* the termination request and calls gulp.start('start') at once
RestartTaskEager(s, writeOk) ==
    LET r == Len(s.restarts) + 1 IN
    IF s.process = NoProcess
    THEN [s EXCEPT !.restarts = Append(@, RestartRec("access", 0, FALSE))]
    ELSE IF s.procs[s.process].exitCode # "null"
    THEN StartTask([s EXCEPT !.restarts =
                        Append(@, RestartRec("exited", s.process, FALSE))],
                   r, writeOk)
    ELSE StartTask([s EXCEPT !.procs[s.process].sigterm =
                                 @ \/ s.procs[s.process].state = "running",
                             !.restarts = Append(@, RestartRec("kill", s.process,
                                   s.procs[s.process].state = "running"))],
                   r, writeOk)

\* 'restart' that signals the handle and waits for its 'close' also when
\* the exit status is already set
RestartTaskSignalsDead(s, writeOk) ==
    LET r == Len(s.restarts) + 1 IN
    IF s.process = NoProcess
    THEN [s EXCEPT !.restarts = Append(@, RestartRec("access", 0, FALSE))]
    ELSE IF s.procs[s.process].exitCode # "null"
    THEN StartTask([s EXCEPT !.procs[s.process].closeL = Append(@, r),
                             !.restarts =
                        Append(@, RestartRec("exited", s.process, FALSE))],
                   r, writeOk)
    ELSE [s EXCEPT !.procs[s.process].sigterm =
                        @ \/ s.procs[s.process].state = "running",
                   !.procs[s.process].closeL = Append(@, r),
                   !.restarts = Append(@, RestartRec("kill", s.process,
                                   s.procs[s.process].state = "running"))]

\* gulp task 'restart' (lines 149-173), the synchronous part
RestartTask(s, writeOk) ==
    LET r == Len(s.restarts) + 1 IN
    IF s.process = NoProcess
    THEN \* fs.access(pidFile, ..., callback): the callback runs later
         [s EXCEPT !.restarts = Append(@, RestartRec("access", 0, FALSE))]
    ELSE IF s.procs[s.process].exitCode # "null"
    THEN StartTask([s EXCEPT !.restarts =
                        Append(@, RestartRec("exited", s.process, FALSE))],
                   r, writeOk)
    ELSE [s EXCEPT !.procs[s.process].sigterm =
                        @ \/ s.procs[s.process].state = "running",
                   !.procs[s.process].closeL = Append(@, r),
                   !.restarts = Append(@, RestartRec("kill", s.process,
                                   s.procs[s.process].state = "running"))]

\* the kill helper delivers SIGTERM to the process that has identifier pid
Signal(ps, pid) ==
    [i \in 1..Len(ps) |->
        IF Pid(i) = pid /\ ps[i].state = "running"
        THEN [ps[i] EXCEPT !.sigterm = TRUE] ELSE ps[i]]

\* a callback of fs.access that reports the error and goes on to signal
AccessCallbackGoesOn(s, r, err) ==
    LET pid == TextToPid(s.pidFile)
        h == Len(s.procs) + 1
    IN  [s EXCEPT !.errors = IF err THEN @ + 1 ELSE @,
                  !.procs = Append(Signal(@, pid), Helper(pid, r)),
                  !.process = h,
                  !.prior = IF pid = PriorPid /\ @ = "running"
                            THEN "signalled" ELSE @,
                  !.restarts[r].branch = IF err THEN "err" ELSE "pid",
                  !.restarts[r].helper = h]

\* callback of fs.access (lines 151-161) for restart r
AccessCallback(s, r, err) ==
    IF err
    THEN [s EXCEPT !.errors = @ + 1, !.restarts[r].branch = "err"]
    ELSE LET pid == TextToPid(s.pidFile)
             h == Len(s.procs) + 1
         IN  [s EXCEPT !.procs = Append(Signal(@, pid), Helper(pid, r)),
                       !.process = h,
                       !.prior = IF pid = PriorPid /\ @ = "running"
                                 THEN "signalled" ELSE @,
                       !.restarts[r].branch = "pid",
                       !.restarts[r].helper = h]

\* 'exit' of child p: the exit observer registered by 'start' (lines
\* 143-146) clears the handle, whatever it refers to
ExitEvent(s, p, code) ==
    [s EXCEPT !.procs[p].state = "exited",
              !.procs[p].exitCode = code,
              !.process = IF s.procs[p].observer THEN NoProcess ELSE @]

\* a stdout 'close' listener that calls 'start' only when the identifier
\* the helper signalled is not the one of a running child
StdoutCloseIfGone(s, h, writeOk) ==
    LET t == [s EXCEPT !.procs[h].stdoutClosed = TRUE] IN
    IF s.procs[h].stdoutL = 0
        \/ \E i \in 1..Len(s.procs) :
              Pid(i) = s.procs[h].target /\ s.procs[i].state # "running"
    THEN t
    ELSE StartTask(t, s.procs[h].stdoutL, writeOk)

\* 'close' of the helper's stdout (lines 157-159)
StdoutCloseEvent(s, h, writeOk) ==
    LET t == [s EXCEPT !.procs[h].stdoutClosed = TRUE] IN
    IF s.procs[h].stdoutL = 0 THEN t
    ELSE StartTask(t, s.procs[h].stdoutL, writeOk)

\* 'close' listeners of which only the first registered one runs
RunFirstCloseListener(s, ls, oks) ==
    IF Len(ls) = 0 THEN s
    ELSE StartTask([s EXCEPT !.process = NoProcess], Head(ls), Head(oks))

\* the 'close' listeners of 'restart' (lines 167-170), in registration order
RECURSIVE RunCloseListeners(_, _, _)
RunCloseListeners(s, ls, oks) ==
    IF Len(ls) = 0 THEN s
    ELSE RunCloseListeners(
             StartTask([s EXCEPT !.process = NoProcess], Head(ls), Head(oks)),
             Tail(ls), Tail(oks))

\* a 'close' that reaches no listener of 'restart'
CloseEventUnheard(s, p, oks) == [s EXCEPT !.procs[p].state = "closed"]

\* 'close' of child p
CloseEvent(s, p, oks) ==
    RunCloseListeners([s EXCEPT !.procs[p].state = "closed"],
                      s.procs[p].closeL, oks)

NUserStarts ==
    Cardinality({i \in 1..Len(procs) :
                    procs[i].kind = "worker" /\ procs[i].cause = 0})

\* a restart is settled once its 'start' has happened or it has reported
\* its error
Settled(r) == restarts[r].starts >= 1 \/ restarts[r].branch = "err"

\* the children restart r may still spawn: a helper and a worker while
\* fs.access is pending, a worker while its listener has not run
Spawnable(r) ==
    IF restarts[r].branch = "access" THEN 2
    ELSE IF restarts[r].branch \in {"pid", "kill"} /\ restarts[r].starts = 0
    THEN 1 ELSE 0

RECURSIVE SumSpawnable(_)
SumSpawnable(n) == IF n = 0 THEN 0 ELSE Spawnable(n) + SumSpawnable(n - 1)

\* children spawned so far plus those the pending handlers may spawn
Reserved == Len(procs) + SumSpawnable(Len(restarts))

\* the tasks each function of module.exports registers with gulp.task
TypescriptTasks == {"watch-typescript", "build-typescript"}

AssetsTasks == {"watch-assets", "copy-assets"}

RunnerTasks == {"write-build-done", "watch-build-done", "start", "restart"}

\* the task the developer is meant to define (doc comment, lines 107-108)
UserTasks == {"build-done"}

\* gulp.hasTask(name)
HasTask(reg, name) == name \in reg

\* no watcher, no marker written yet (buildFile counts the writes), no
\* change waiting to be reported, nothing started
Build0 ==
    [watching |-> FALSE, buildFile |-> 0, pending |-> 0, streamEnds |-> 0,
     wbdStarts |-> 0, wbdDone |-> 0, buildErrors |-> 0, escaped |-> 0,
     changesSeen |-> 0, bdStarts |-> 0]

\* a 'write-build-done' without the try/catch: the exception of a failed
\* write escapes the task
WriteBuildDoneUncaught(b, writeOk, merged) ==
    IF writeOk
    THEN [b EXCEPT !.buildFile = @ + 1,
                   !.pending = IF b.watching /\ ~(merged /\ b.pending > 0)
                               THEN @ + 1 ELSE @,
                   !.wbdDone = @ + 1]
    ELSE [b EXCEPT !.escaped = @ + 1]

\* gulp task 'write-build-done' (lines 116-122).  A successful write is a
\* change of the marker file; the polling watcher (awaitWriteFinish) may
\* merge it with a change it has not reported yet.
WriteBuildDoneTask(b, writeOk, merged) ==
    IF writeOk
    THEN [b EXCEPT !.buildFile = @ + 1,
                   !.pending = IF b.watching /\ ~(merged /\ b.pending > 0)
                               THEN @ + 1 ELSE @,
                   !.wbdDone = @ + 1]
    ELSE [b EXCEPT !.buildErrors = @ + 1, !.wbdDone = @ + 1]

\* buildDone(gulp) (lines 196-200)
BuildDone(b, reg, writeOk, merged) ==
    IF HasTask(reg, "write-build-done")
    THEN WriteBuildDoneTask([b EXCEPT !.wbdStarts = @ + 1], writeOk, merged)
    ELSE b

\* 'end' of the stream of 'build-typescript' (line 51) or of 'copy-assets'
\* (line 78)
StreamEndEvent(b, reg, writeOk, merged) ==
    BuildDone([b EXCEPT !.streamEnds = @ + 1], reg, writeOk, merged)

\* a watcher callback that starts 'build-done' without asking for it
WatchCallbackUnguarded(b, reg) ==
    [b EXCEPT !.pending = @ - 1, !.changesSeen = @ + 1, !.bdStarts = @ + 1]

\* callback of the watcher of 'watch-build-done' (lines 126-130)
WatchCallback(b, reg) ==
    LET seen == [b EXCEPT !.pending = @ - 1, !.changesSeen = @ + 1] IN
    IF HasTask(reg, "build-done")
    THEN [seen EXCEPT !.bdStarts = @ + 1]
    ELSE seen

\* JavaScript values: a string is its sequence of characters, an array is
\* its sequence of strings
Str(s) == [t |-> "string", s |-> s, a |-> <<>>, n |-> 0]

Arr(a) == [t |-> "array", s |-> <<>>, a |-> a, n |-> 0]

Num(n) == [t |-> "number", s |-> <<>>, a |-> <<>>, n |-> n]

Undefined == [t |-> "undefined", s |-> <<>>, a |-> <<>>, n |-> 0]

Null == [t |-> "null", s |-> <<>>, a |-> <<>>, n |-> 0]

\* the typeof operator: an array and null are "object"
TypeOf(v) == IF v.t \in {"array", "null"} THEN "object" ELSE v.t

\* boolean == string (lines 207): both sides are converted to numbers, and
\* a string that is not a numeral is NaN, equal to nothing
BoolEqualsString(b, str) ==
    CASE str \in {"", "0"} -> ~b
      [] str = "1" -> b
      [] OTHER -> FALSE

\* what a call returns: a value, or the message of the Error it threw
Returned(v) == [threw |-> FALSE, error |-> "", value |-> v]

Threw(msg) == [threw |-> TRUE, error |-> msg, value |-> Undefined]

\* adaptPath(path) (lines 202-212): `typeof path == 'String'` compares
\* with a capital S, `!typeof path == 'Array'` negates the type name first
AdaptPath(v) ==
    LET p == IF TypeOf(v) = "String" THEN Arr(<<v.s>>) ELSE v IN
    IF BoolEqualsString(TypeOf(p) = "", "Array")
    THEN Threw("Source directory: Array or String expected")
    ELSE Returned(p)

\* runner() has just been called: no child, no handle
RunnerInit ==
    /\ process = NoProcess
    /\ procs = <<>>
    /\ \/ prior = "none" /\ pidFile = Missing
       \/ prior \in {"running", "dead"} /\ pidFile = PidToText(PriorPid)
    /\ restarts = <<>>
    /\ errors = 0
    /\ thrown = 0
    /\ normal = TRUE
    /\ debug \in BOOLEAN
    /\ options = <<>>

\* 'watch-assets' is not run
AdaptIdle ==
    /\ assetsPath = Undefined
    /\ result = Returned(Undefined)
    /\ adaptPc = "idle"

\* the gulpfile calls runner() only
Init ==
    /\ RunnerInit
    /\ registered = RunnerTasks
    /\ build = Build0
    /\ AdaptIdle

\* the user runs the task 'start'
Start ==
    /\ HasTask(registered, "start")
    /\ NUserStarts < MaxUserStarts
    /\ Reserved + 1 <= MaxProcs
    /\ \E writeOk \in WriteOutcomes : Install(StartTask(St, 0, writeOk))
    /\ normal' = (normal /\ prior = "none" /\ Len(procs) = 0
                     /\ Len(restarts) = 0)

\* the user runs the task 'restart'
Restart ==
    /\ HasTask(registered, "restart")
    /\ Len(restarts) < MaxRestarts
    /\ Reserved + (IF process = NoProcess THEN 2 ELSE 1) <= MaxProcs
    /\ \E writeOk \in WriteOutcomes : Install(RestartTask(St, writeOk))
    /\ normal' = (normal /\ (Len(procs) > 0 \/ prior # "none")
                     /\ \A r \in 1..Len(restarts) : Settled(r))

\* fs.access completes for a restart that is waiting for it
AccessDone ==
    /\ \E r \in 1..Len(restarts) :
         /\ restarts[r].branch = "access"
         /\ \E err \in BOOLEAN :
              /\ pidFile = Missing => err
              /\ Install(AccessCallback(St, r, err))
    /\ UNCHANGED normal

\* a child terminates, with an exit code or by a signal (exitCode stays null)
Exit ==
    /\ \E p \in 1..Len(procs) :
         /\ procs[p].state = "running"
         /\ \E code \in {"null", "code"} : Install(ExitEvent(St, p, code))
    /\ UNCHANGED normal

\* the stdout pipe of a helper closes
StdoutClose ==
    /\ \E h \in 1..Len(procs) :
         /\ ~procs[h].stdoutClosed
         /\ \E writeOk \in WriteOutcomes : Install(StdoutCloseEvent(St, h, writeOk))
    /\ UNCHANGED normal

\* 'close' is emitted after 'exit' and after the stdio streams have closed
Close ==
    /\ \E p \in 1..Len(procs) :
         /\ procs[p].state = "exited"
         /\ procs[p].stdoutClosed
         \* with no listener and the handle elsewhere, 'close' is received
         \* by nothing and no listener can be registered on p any more
         /\ procs[p].closeL # <<>> \/ process = p
         /\ \E oks \in [1..Len(procs[p].closeL) -> BOOLEAN] :
              /\ thrown + Failures(oks) <= MaxWriteFailures
              /\ Install(CloseEvent(St, p, oks))
    /\ UNCHANGED normal

\* the worker of the earlier run terminates
PriorExit ==
    /\ prior \in {"running", "signalled"}
    /\ prior' = "dead"
    /\ UNCHANGED <<process, procs, pidFile, restarts, errors, thrown, normal,
                   debug, options, buildVars, adaptVars>>

Next ==
    \/ Start
    \/ Restart
    \/ AccessDone
    \/ Exit
    \/ StdoutClose
    \/ Close
    \/ PriorExit

Spec == Init /\ [][Next]_vars

\* the gulpfile calls any of typescript(), assets() and runner(), and may
\* define 'build-done'
BuildInit ==
    /\ RunnerInit
    /\ \E ts \in SUBSET {TypescriptTasks, AssetsTasks, RunnerTasks, UserTasks} :
          registered = UNION ts
    /\ build = Build0
    /\ AdaptIdle

\* the stream of a build task that is registered ends
StreamEnd ==
    /\ build.streamEnds < MaxBuilds
    /\ \E task \in {"build-typescript", "copy-assets"} :
          HasTask(registered, task)
    /\ \E writeOk, merged \in BOOLEAN :
          build' = StreamEndEvent(build, registered, writeOk, merged)
    /\ UNCHANGED <<runnerVars, registered, adaptVars>>

\* the user runs the task 'watch-build-done'
WatchBuildDone ==
    /\ HasTask(registered, "watch-build-done")
    /\ ~build.watching
    /\ build' = [build EXCEPT !.watching = TRUE]
    /\ UNCHANGED <<runnerVars, registered, adaptVars>>

\* the watcher reports a change of the marker file
MarkerChange ==
    /\ build.pending > 0
    /\ build' = WatchCallback(build, registered)
    /\ UNCHANGED <<runnerVars, registered, adaptVars>>

\* the build-done chain, next to a worker that is started and exits
BuildNext ==
    \/ Start
    \/ Exit
    \/ StreamEnd
    \/ WatchBuildDone
    \/ MarkerChange

BuildSpec == BuildInit /\ [][BuildNext]_vars

\* the sequences over S of length at most n
SeqsUpTo(S, n) == UNION {[1..k -> S] : k \in 0..n}

\* the strings used as paths
Strings == SeqsUpTo({"a", "/"}, MaxLen)

\* the values assets() is called with: a string, an array of strings, or
\* something else
PathInputs ==
    {Str(s) : s \in Strings}
        \cup {Arr(a) : a \in SeqsUpTo(Strings, MaxPaths)}
        \cup {Num(n) : n \in 0..1}
        \cup {Undefined, Null}

\* the gulpfile calls assets(gulp, assetsPath, outputDirectory)
AdaptInit ==
    /\ RunnerInit
    /\ registered = AssetsTasks
    /\ build = Build0
    /\ assetsPath \in PathInputs
    /\ result = Returned(Undefined)
    /\ adaptPc = "call"

\* the user runs the task 'watch-assets' (lines 65-71): the watcher is given
\* adaptPath(assetsPath)
WatchAssets ==
    /\ HasTask(registered, "watch-assets")
    /\ adaptPc = "call"
    /\ result' = AdaptPath(assetsPath)
    /\ adaptPc' = "done"
    /\ UNCHANGED <<runnerVars, buildVars, assetsPath>>

AdaptNext == WatchAssets

AdaptSpec == AdaptInit /\ [][AdaptNext]_vars

\* The pipes of a helper close, and Node emits 'close' once a child has
\* exited and its stdio streams have closed: an event of these that can
\* be emitted is emitted.  Nothing makes a child exit.
\* The argument list plays no part in the waiting: debug is disabled.
FairInit == Init /\ ~debug

FairSpec == FairInit /\ [][Next]_vars /\ WF_vars(StdoutClose) /\ WF_vars(Close)

----------------------------------------------------------------------------
\* the workers spawned by this controller that are running
RunningWorkers ==
    {i \in 1..Len(procs) :
        procs[i].kind = "worker" /\ procs[i].state = "running"}

\* the workers that are running, the one of the earlier run included
NRunning ==
    Cardinality(RunningWorkers)
        + (IF prior \in {"running", "signalled"} THEN 1 ELSE 0)

\* the workers whose 'start' was called by the handler of restart r
StartedBy(r) ==
    {i \in 1..Len(procs) : procs[i].kind = "worker" /\ procs[i].cause = r}

\* C1: a worker spawned because of a restart that found the handle
\* referring to a running child (exit status not set) exists only once that
\* child has been sent the termination request and its 'close' has been
\* observed.
C1_SpawnFollowsClose ==
    \A r \in 1..Len(restarts) :
        (restarts[r].branch = "kill" /\ restarts[r].live
            /\ StartedBy(r) # {})
        => /\ procs[restarts[r].target].sigterm
           /\ procs[restarts[r].target].state = "closed"

\* a restart of a running worker has spawned the new worker
C1_Witness ==
    \E r \in 1..Len(restarts) :
        /\ restarts[r].branch = "kill" /\ restarts[r].live
        /\ procs[restarts[r].target].kind = "worker"
        /\ StartedBy(r) # {}

\* C2: under normal operation (one initial 'start', restarts that do not
\* overlap, no failing write of the PID file) at most one worker is running in every state, also when the
\* restart reaches the worker through the PID file.
C2_AtMostOneWorker == (normal /\ thrown = 0) => NRunning <= 1

\* C3: when two restarts have registered their 'close' listener on the same
\* child, its 'close' makes each of them call 'start': two more workers are
\* running after that step, one per restart, and the handle and the PID file
\* refer to the second one only.
C3_RaceStartsTwoWorkers ==
    [][\A p \in 1..Len(procs) :
          (procs[p].state = "exited" /\ procs'[p].state = "closed"
              /\ Len(procs[p].closeL) = 2)
          => LET a == Len(procs) + 1
                 b == Len(procs) + 2
             IN  /\ Len(procs') = b
                 /\ RunningWorkers' = RunningWorkers \cup {a, b}
                 /\ procs'[a].cause = procs[p].closeL[1]
                 /\ procs'[b].cause = procs[p].closeL[2]
                 /\ process' = b
                 /\ pidFile' # PidToText(Pid(a)) \/ ~procs'[b].pidWritten
      ]_vars

\* two workers started by two different restarts of the same child are
\* running, and the handle and the PID file refer to one of them
C3_Witness ==
    \E a, b \in RunningWorkers :
        /\ a # b
        /\ procs[a].cause # 0 /\ procs[b].cause # 0
        /\ procs[a].cause # procs[b].cause
        /\ restarts[procs[a].cause].branch = "kill"
        /\ restarts[procs[b].cause].branch = "kill"
        /\ restarts[procs[a].cause].target = restarts[procs[b].cause].target
        /\ process = b
        /\ pidFile = PidToText(Pid(b))

\* the index of the worker spawned last
LastWorker ==
    CHOOSE i \in 1..Len(procs) :
        /\ procs[i].kind = "worker"
        /\ \A j \in (i + 1)..Len(procs) : procs[j].kind # "worker"

\* C4: every restart calls 'start' exactly once, never twice, and has done
\* so as soon as it found the handle exited, or the child it waits for has
\* closed, or the stdout of its helper has closed; a restart that reported
\* the PID file error calls it zero times.
C4_ExactlyOneStart ==
    \A r \in 1..Len(restarts) :
        /\ restarts[r].starts <= 1
        /\ restarts[r].branch = "exited" => restarts[r].starts = 1
        /\ (restarts[r].branch = "kill"
               /\ procs[restarts[r].target].state = "closed")
           => restarts[r].starts = 1
        /\ (restarts[r].branch = "pid"
               /\ procs[restarts[r].helper].stdoutClosed)
           => restarts[r].starts = 1
        /\ restarts[r].branch = "err" => restarts[r].starts = 0

\* C5: once a worker has been spawned, the PID file holds the text of the
\* identifier of the worker spawned last.
C5_PidFileIsLastWorker ==
    (\E i \in 1..Len(procs) : procs[i].kind = "worker")
    => pidFile = PidToText(Pid(LastWorker))

\* C6: the step in which a restart reports the PID file error changes
\* nothing else (no child spawned, handle and PID file as they were), and
\* that restart never calls 'start' and never has a helper.
C6_ErrorDoesNothing ==
    [][/\ errors' # errors
          => /\ errors' = errors + 1
             /\ process' = process
             /\ procs' = procs
             /\ pidFile' = pidFile
             /\ prior' = prior
             /\ thrown' = thrown
             /\ Len(restarts') = Len(restarts)
             /\ \E r \in 1..Len(restarts) :
                   /\ restarts[r].branch = "access"
                   /\ restarts' = [restarts EXCEPT ![r].branch = "err"]
       /\ \A r \in 1..Len(restarts') :
             restarts'[r].branch = "err"
             => /\ restarts'[r].starts = 0
                /\ restarts'[r].helper = 0
                /\ StartedBy(r)' = {}
      ]_vars

\* a restart has reported the PID file error while the file was missing
C6_Witness ==
    /\ errors > 0
    /\ \E r \in 1..Len(restarts) : restarts[r].branch = "err"
    /\ pidFile = Missing
    /\ process = NoProcess

\* C7: a restart that finds the handle present with its exit status set
\* calls 'start' in that very step, sends the handle no termination request
\* and registers no listener on it; that restart has one start for ever.
C7_ExitedHandleStartsAtOnce ==
    [][/\ (Len(restarts') = Len(restarts) + 1 /\ process # NoProcess
             /\ procs[process].exitCode # "null")
          => LET r == Len(restarts')
                 w == Len(procs) + 1
             IN  /\ Len(procs') = w
                 /\ procs'[w].kind = "worker"
                 /\ procs'[w].cause = r
                 /\ process' = w
                 /\ restarts'[r].branch = "exited"
                 /\ SubSeq(procs', 1, Len(procs)) = procs
       /\ \A r \in 1..Len(restarts') :
             restarts'[r].branch = "exited"
             => /\ restarts'[r].starts = 1
                /\ Cardinality(StartedBy(r)') = 1
      ]_vars

\* a restart has found the handle exited and has started a worker
C7_Witness ==
    \E r \in 1..Len(restarts) :
        /\ restarts[r].branch = "exited"
        /\ procs[restarts[r].target].exitCode # "null"
        /\ StartedBy(r) # {}

\* C8: the step in which a worker reports exit leaves the handle absent,
\* and an absent handle stays absent until a 'start' stores a worker in it.
C8_ExitClearsHandle ==
    [][/\ \A p \in 1..Len(procs) :
             (procs[p].kind = "worker" /\ procs[p].state = "running"
                 /\ procs'[p].state = "exited")
             => process' = NoProcess
       /\ (process = NoProcess /\ process' # NoProcess)
          => procs'[process'].kind = "worker"
      ]_vars

\* C9: a 'start' run by the user whose write of the PID file throws leaves
\* no worker running that was not running before, and leaves the handle
\* and the PID file as they were.
C9_FailedStartHasNoEffect ==
    [][(thrown' # thrown /\ restarts' = restarts)
          => /\ RunningWorkers' \subseteq RunningWorkers
             /\ process' = process
             /\ pidFile' = pidFile
      ]_vars

\* C10: a restart whose fs.access succeeded has spawned a helper that
\* signals the identifier read from the PID file, and it has called 'start'
\* exactly when the stdout of that helper has closed (once if closed, not
\* yet otherwise), whatever the identifier denotes.
C10_PidBranchStartsOnStdoutClose ==
    [][\A r \in 1..Len(restarts') :
          restarts'[r].branch = "pid"
          => LET h == restarts'[r].helper IN
             /\ procs'[h].kind = "kill"
             /\ restarts'[r].starts = (IF procs'[h].stdoutClosed THEN 1 ELSE 0)
             /\ Cardinality(StartedBy(r)') = restarts'[r].starts
             /\ (r <= Len(restarts) /\ restarts[r].branch = "access")
                => /\ h = Len(procs) + 1
                   /\ PidToText(procs'[h].target) = pidFile
                   /\ pidFile' = pidFile
      ]_vars

\* a restart has signalled, through the PID file, the identifier of a child
\* that had already terminated, and has started a new worker
C10_Witness ==
    \E r \in 1..Len(restarts) :
        /\ restarts[r].branch = "pid"
        /\ restarts[r].starts = 1
        /\ \E i \in 1..Len(procs) :
              /\ Pid(i) = procs[restarts[r].helper].target
              /\ ~procs[i].sigterm

\* C11: the argument list of every worker spawned by 'start', the first
\* one and those of the starts called by a restart, is exactly <<command>>
\* when debug is disabled and exactly <<inspect flag, command>> when it is
\* enabled; the global list holds no entry of an earlier start.
C11_ArgumentList ==
    LET expected == IF debug THEN <<Inspect, Command>> ELSE <<Command>> IN
    /\ \A i \in 1..Len(procs) :
          procs[i].kind = "worker" => procs[i].args = expected
    /\ options \in {<<>>, expected}

\* with debug enabled, a worker spawned by the start of a restart runs
\* after an earlier worker
C11_Witness ==
    /\ debug
    /\ \E i, j \in 1..Len(procs) :
          /\ i < j
          /\ procs[i].kind = "worker"
          /\ procs[j].kind = "worker" /\ procs[j].cause # 0
          /\ procs[j].args = <<Inspect, Command>>

\* C12: a restart that found a running child and waits for its 'close' has
\* called no 'start' as long as that child has not closed, however long
\* that lasts; and (under fairness of 'close') a restart whose child has
\* exited does not wait for ever: again and again every such restart has
\* its new worker.
C12_RestartWaitsForClose ==
    /\ [](\A r \in 1..Len(restarts) :
            (restarts[r].branch = "kill" /\ restarts[r].live
                /\ procs[restarts[r].target].state # "closed")
            => (restarts[r].starts = 0 /\ StartedBy(r) = {}))
    /\ []<>(\A r \in 1..Len(restarts) :
              (restarts[r].branch = "kill" /\ restarts[r].live
                  /\ procs[restarts[r].target].state # "running")
              => StartedBy(r) # {})

\* a restart has sent the termination request to a running worker that is
\* still running, and waits
C12_Witness ==
    \E r \in 1..Len(restarts) :
        /\ restarts[r].branch = "kill" /\ restarts[r].live
        /\ procs[restarts[r].target].kind = "worker"
        /\ procs[restarts[r].target].sigterm
        /\ procs[restarts[r].target].state = "running"
        /\ restarts[r].starts = 0

\* C13: the step in which the write of the build marker fails reports the
\* failure and completes the task: no exception escapes, and the handle,
\* the PID file, the children, the marker and its watcher are as before.
C13_MarkerFailureIsCaught ==
    [][/\ build'.buildErrors # build.buildErrors
          => /\ build'.buildErrors = build.buildErrors + 1
             /\ build'.wbdDone = build.wbdDone + 1
             /\ build'.escaped = build.escaped
             /\ build'.buildFile = build.buildFile
             /\ build'.pending = build.pending
             /\ UNCHANGED runnerVars
       /\ build'.escaped = 0
       /\ build'.wbdDone = build'.wbdStarts
      ]_vars

\* the write of the marker has failed while a worker is running
C13_Witness ==
    /\ build.buildErrors > 0
    /\ process # NoProcess
    /\ process \in RunningWorkers
    /\ pidFile = PidToText(Pid(process))

\* C16: the end of a build stream starts 'write-build-done' exactly when
\* that task is registered; a reported change of the marker starts
\* 'build-done' exactly when it is registered, and is otherwise ignored
\* without an error; 'build-done' is started at most once per marker write.
C16_ChainThroughRegisteredTasks ==
    [][/\ build'.streamEnds # build.streamEnds
          => build'.wbdStarts = build.wbdStarts
                + (IF "write-build-done" \in registered THEN 1 ELSE 0)
       /\ build'.streamEnds = build.streamEnds
          => build'.wbdStarts = build.wbdStarts
       /\ build'.changesSeen # build.changesSeen
          => /\ build'.bdStarts = build.bdStarts
                   + (IF "build-done" \in registered THEN 1 ELSE 0)
             /\ build'.buildErrors = build.buildErrors
             /\ build'.escaped = build.escaped
       /\ build'.changesSeen = build.changesSeen
          => build'.bdStarts = build.bdStarts
       /\ build'.bdStarts <= build'.buildFile
      ]_vars

\* two builds have written the marker and 'build-done' has been started
\* for each
C16_Witness ==
    /\ build.streamEnds = 2
    /\ build.wbdStarts = 2
    /\ build.buildFile = 2
    /\ build.bdStarts = 2

\* C14: in every state the handle is absent or refers to a worker spawned
\* by 'start', never to another child such as the signalling helper.
C14_HandleIsWorker ==
    process # NoProcess => procs[process].kind = "worker"

\* C15: in every state where the handle is absent, no worker spawned by
\* this controller is running.
C15_AbsentHandleNoWorker ==
    process = NoProcess => RunningWorkers = {}

\* C17: adaptPath returns the one-element array of a string it is given,
\* returns an array unchanged, and throws 'Source directory: Array or
\* String expected' for a value that is neither.
C17_AdaptPathNormalises ==
    adaptPc = "done"
    => /\ assetsPath.t = "string"
          => result = Returned(Arr(<<assetsPath.s>>))
       /\ assetsPath.t = "array" => result = Returned(assetsPath)
       /\ assetsPath.t \notin {"string", "array"}
          => result = Threw("Source directory: Array or String expected")
====
